---- MODULE Spec2Model ----
(***************************************************************************)
(* A model of the DingTalk notifier (src/dding_talk.go): the Robot with    *)
(* its pending message `data` and pending mention state `at`, the          *)
(* statements of BuildMsgAndSend and send, and the pure helpers            *)
(* serialize, buildQuery and Response.Error.                               *)
(*                                                                         *)
(* Strings that the code only passes around are TLA+ strings.  Strings     *)
(* whose inner structure matters (the URL, the access token, formatted     *)
(* messages) are sequences of atoms, an atom being a TLA+ string that      *)
(* stands for a run of characters.                                         *)
(***************************************************************************)
EXTENDS Integers, Sequences, FiniteSets, TLC

\* ------------------------------------------------------------------ bounds
\* longest list of mention options in one call of the sequential model
MaxOpts == 2
\* longest list of mention options in one call of the concurrent model
MaxConcOpts == 1
\* longest access token, in atoms
MaxTokenLen == 2

\* --------------------------------------------------------------- constants
apiUrl == <<"https://oapi.dingtalk.com/robot/send", "?", "access_token", "=">>
textType == "text"
markdownType == "markdown"
msgType == "msgtype"
atKey == "at"
atMobiles == "atMobiles"
atUserIds == "atUserIds"
atAll == "isAtAll"

\* ------------------------------------------------------------- Go values
\* map[string]...: a function whose domain is the set of keys present
EmptyMap == [k \in {} |-> <<>>]
MapSet(m, k, v) == [j \in (DOMAIN m) \cup {k} |-> IF j = k THEN v ELSE m[j]]

\* The values stored in a Message (map[string]interface{}).  `fields` maps
\* the keys of a nested map to a list of strings (a single string is a list
\* of one, the boolean true is <<"true">>).
Str(s) == [kind |-> "string", str |-> s, fields |-> EmptyMap]
Obj(f) == [kind |-> "object", str |-> "", fields |-> f]
\* a value encoding/json and sonic refuse to encode (a channel, a func)
Chan == [kind |-> "chan", str |-> "", fields |-> EmptyMap]

\* sequences over S of length at most n
SeqsUpTo(S, n) == UNION {[1..m -> S] : m \in 0..n}

\* --------------------------------------------------------------- AtPeople
NewAtPeople == [atMobiles |-> <<>>, atUserIds |-> <<>>, isAtAll |-> FALSE]

serializeDropsFalseOnly(people) ==
    LET r1 == MapSet(EmptyMap, atMobiles, people.atMobiles)
        r2 == MapSet(r1, atUserIds, people.atUserIds)
    IN  IF people.isAtAll THEN MapSet(r2, atAll, <<"true">>) ELSE r2

serialize(people) ==
    LET r1 == IF Len(people.atMobiles) > 0
              THEN MapSet(EmptyMap, atMobiles, people.atMobiles) ELSE EmptyMap
        r2 == IF Len(people.atUserIds) > 0
              THEN MapSet(r1, atUserIds, people.atUserIds) ELSE r1
    IN  IF people.isAtAll THEN MapSet(r2, atAll, <<"true">>) ELSE r2

\* ------------------------------------------------------------- AtOption
WithAtMobiles(mobiles) == [opt |-> "WithAtMobiles", args |-> mobiles]
WithAtUserIds(userIds) == [opt |-> "WithAtUserIds", args |-> userIds]
WithAtAll == [opt |-> "WithAtAll", args |-> <<>>]

ApplyAtOptionAppends(o, people) ==
    CASE o.opt = "WithAtMobiles" -> [people EXCEPT !.atMobiles = @ \o o.args]
      [] o.opt = "WithAtUserIds" -> [people EXCEPT !.atUserIds = @ \o o.args]
      [] OTHER -> [people EXCEPT !.isAtAll = TRUE]

\* opt(r.at): the closure an option constructor returns, run on the state
ApplyAtOption(o, people) ==
    CASE o.opt = "WithAtMobiles" -> [people EXCEPT !.atMobiles = o.args]
      [] o.opt = "WithAtUserIds" -> [people EXCEPT !.atUserIds = o.args]
      [] OTHER -> [people EXCEPT !.isAtAll = TRUE]

\* ----------------------------------------------------------- SendMsgType
\* A builder is the list of assignments r.data[k] = v it makes, in order.
TextType(content) ==
    << [k |-> msgType, v |-> Str(textType)],
       [k |-> textType, v |-> Obj("content" :> <<content>>)] >>

MarkDownType(title, text) ==
    << [k |-> msgType, v |-> Str(markdownType)],
       [k |-> markdownType, v |-> Obj(("title" :> <<title>>) @@ ("text" :> <<text>>))] >>

\* ---------------------------------------------------------------- inputs
MobileLists == { <<>>, <<"111", "222">>, <<"333">> }
UserIdLists == { <<"u1">> }
AtOptions == {WithAtMobiles(m) : m \in MobileLists}
             \cup {WithAtUserIds(u) : u \in UserIdLists} \cup {WithAtAll}

StdBuilders == { TextType("hello"), MarkDownType("T", "B") }
\* builders written by the caller (SendMsgType is any func(*Robot)): one that
\* writes nothing, and one that stores a markdown message and a channel under
\* "text"
CustomBuilders ==
    { <<>>,
      MarkDownType("T", "B") \o << [k |-> textType, v |-> Chan] >> }
Builders == StdBuilders \cup CustomBuilders

\* ------------------------------------------------------------ sonic.Marshal
Marshal(msg) ==
    IF \E k \in DOMAIN msg : msg[k].kind = "chan"
    THEN [err |-> TRUE, body |-> EmptyMap]
    ELSE [err |-> FALSE, body |-> msg]

\* ------------------------------------------------------------- Response
\* a response body as the server wrote it: JSON with the two fields, or text
\* that is no JSON at all
OkBody == [valid |-> TRUE, errcode |-> 0, errmsg |-> ""]
ErrBody == [valid |-> TRUE, errcode |-> 300001, errmsg |-> "token is not exist"]
GarbageBody == [valid |-> FALSE, errcode |-> 0, errmsg |-> "<html>"]
Bodies == {OkBody, ErrBody, GarbageBody}

NewResponse == [ErrCode |-> 0, ErrMsg |-> ""]

UnmarshalDropsCode(body) ==
    IF body.valid THEN [ErrCode |-> 0, ErrMsg |-> body.errmsg] ELSE NewResponse

\* result := new(Response); _ = sonic.Unmarshal(respData, result)
Unmarshal(body) ==
    IF body.valid THEN [ErrCode |-> body.errcode, ErrMsg |-> body.errmsg]
    ELSE NewResponse

ResponseError(resp) ==
    <<"dding talk response info: errcode=", ToString(resp.ErrCode), ",errmsg=", resp.ErrMsg>>

\* ------------------------------------------------------------ buildQuery
\* HMAC-SHA256 is an uninterpreted injective function of (key, message)
Hmac(key, payload) == "hmac-sha256[" \o key \o "]" \o payload
\* base64.StdEncoding of a 32-byte digest: 43 characters of the base64
\* alphabet and one "=" of padding
Base64(digest) == << "b64(" \o digest \o ")", "=" >>

\* a second reading of the clock is signed
buildQueryTwoClocks(token, secret, ms) ==
    LET timestamp == ToString(ms)
        signature == ToString(ms + 1) \o "\n" \o secret
        sign == Base64(Hmac(secret, signature))
        webhook == apiUrl \o token
    IN  webhook \o <<"&", "timestamp", "=", timestamp>> \o <<"&", "sign", "=">> \o sign

\* buildQuery, given the reading ms of time.Now().UnixMilli()
buildQueryAt(token, secret, ms) ==
    LET timestamp == ToString(ms)
        signature == timestamp \o "\n" \o secret
        sign == Base64(Hmac(secret, signature))
        webhook == apiUrl \o token
    IN  webhook \o <<"&", "timestamp", "=", timestamp>> \o <<"&", "sign", "=">> \o sign

\* ------------------------------------------------------------------ state
Procs == {"g1", "g2"}   \* goroutines that may call BuildMsgAndSend
Caller == "g1"          \* the goroutine of the sequential model
Times == {1, 2}      \* values of time.Now().UnixMilli()

VARIABLES
    AccessToken,  \* Robot.AccessToken, a sequence of atoms
    Secret,       \* Robot.Secret
    data,         \* Robot.data, the pending message
    at,           \* *Robot.at, the pending mention state
    now,          \* the wall clock, time.Now().UnixMilli()
    crashed,      \* the runtime has thrown "concurrent map writes"
    pc,           \* per goroutine: the statement it executes next
    smt,          \* per call: the builder passed in
    opts,         \* per call: the mention options passed in
    idx,          \* per call: the next builder assignment / the next option
    url,          \* send's local url
    reqData,      \* send's local reqData, err of sonic.Marshal
    outcome,      \* what http.Post and io.ReadAll gave this call
    ret,          \* the value the call returned
    logs,         \* the records the call gave to zlog
    nposts,       \* how many times the call ran http.Post
    posted,       \* the request the call posted
    applied,      \* the builder assignments, options and send the call ran, in order
    overlap,      \* another call was in flight at some time during this call
    fnIn,         \* input of a helper run on its own
    fnOut         \* its result

robot == <<AccessToken, Secret, data, at, now, crashed>>
locals == <<pc, smt, opts, idx, url, reqData, outcome, ret, logs, nposts, posted, applied, overlap>>
helper == <<fnIn, fnOut>>
vars == <<robot, locals, helper>>

NoBody == [valid |-> FALSE, errcode |-> 0, errmsg |-> ""]
NoOutcome == [status |-> "none", body |-> NoBody]

NoRet == [kind |-> "none", msg |-> <<>>]
NoPost == [url |-> <<>>, body |-> EmptyMap]
NoReq == [err |-> FALSE, body |-> EmptyMap]
NoFn == [op |-> "none", people |-> NewAtPeople]
NoOut == [url |-> <<>>, mapping |-> EmptyMap]

Log(level, msg) == [level |-> level, msg |-> msg]

\* NewRobot(accessToken, secret)
NewRobot(accessToken, secret) ==
    /\ AccessToken = accessToken
    /\ Secret = secret
    /\ data = EmptyMap
    /\ at = NewAtPeople
    /\ crashed = FALSE

IdleLocals ==
    /\ pc = [p \in Procs |-> "idle"]
    /\ smt = [p \in Procs |-> <<>>]
    /\ opts = [p \in Procs |-> <<>>]
    /\ idx = [p \in Procs |-> 1]
    /\ url = [p \in Procs |-> <<>>]
    /\ reqData = [p \in Procs |-> NoReq]
    /\ outcome = [p \in Procs |-> NoOutcome]
    /\ ret = [p \in Procs |-> NoRet]
    /\ logs = [p \in Procs |-> <<>>]
    /\ nposts = [p \in Procs |-> 0]
    /\ posted = [p \in Procs |-> NoPost]
    /\ applied = [p \in Procs |-> <<>>]
    /\ overlap = [p \in Procs |-> FALSE]

\* the clock does not advance while the modelled calls run
Init ==
    /\ NewRobot(<<"tok">>, "SEC")
    /\ now \in Times
    /\ IdleLocals
    /\ fnIn = NoFn
    /\ fnOut = NoOut

\* ------------------------------------------------------- BuildMsgAndSend
AfterSmt(o) == IF Len(o) = 0 THEN "send" ELSE "opts"

\* a goroutine enters BuildMsgAndSend(b, o...)
Call(p, b, o) ==
    /\ ~crashed
    /\ pc[p] = "idle"
    /\ pc' = [pc EXCEPT ![p] = IF Len(b) = 0 THEN AfterSmt(o) ELSE "smt"]
    /\ smt' = [smt EXCEPT ![p] = b]
    /\ opts' = [opts EXCEPT ![p] = o]
    /\ idx' = [idx EXCEPT ![p] = 1]
    /\ url' = [url EXCEPT ![p] = <<>>]
    /\ reqData' = [reqData EXCEPT ![p] = NoReq]
    /\ outcome' = [outcome EXCEPT ![p] = NoOutcome]
    /\ ret' = [ret EXCEPT ![p] = NoRet]
    /\ logs' = [logs EXCEPT ![p] = <<>>]
    /\ nposts' = [nposts EXCEPT ![p] = 0]
    /\ posted' = [posted EXCEPT ![p] = NoPost]
    /\ applied' = [applied EXCEPT ![p] = <<>>]
    /\ overlap' = [q \in Procs |->
                     IF q = p THEN \E o2 \in Procs \ {p} : pc[o2] # "idle"
                     ELSE overlap[q] \/ pc[q] # "idle"]
    /\ UNCHANGED <<robot, helper>>

\* smt(r): the builder's next assignment r.data[k] = v
ApplySmt(p) ==
    /\ ~crashed
    /\ pc[p] = "smt"
    /\ LET w == smt[p][idx[p]] IN data' = MapSet(data, w.k, w.v)
    /\ applied' = [applied EXCEPT ![p] = Append(@, [ev |-> "smt", n |-> idx[p]])]
    /\ IF idx[p] = Len(smt[p])
       THEN /\ pc' = [pc EXCEPT ![p] = AfterSmt(opts[p])]
            /\ idx' = [idx EXCEPT ![p] = 1]
       ELSE /\ pc' = pc
            /\ idx' = [idx EXCEPT ![p] = @ + 1]
    /\ UNCHANGED <<AccessToken, Secret, at, now, crashed, smt, opts, url, reqData, outcome,
                   ret, logs, nposts, posted, overlap, helper>>

\* for _, opt := range opts { opt(r.at) }: one iteration
ApplyOpt(p) ==
    /\ ~crashed
    /\ pc[p] = "opts"
    /\ at' = ApplyAtOption(opts[p][idx[p]], at)
    /\ applied' = [applied EXCEPT ![p] = Append(@, [ev |-> "opt", n |-> idx[p]])]
    /\ IF idx[p] = Len(opts[p])
       THEN /\ pc' = [pc EXCEPT ![p] = "send"]
            /\ idx' = [idx EXCEPT ![p] = 1]
       ELSE /\ pc' = pc
            /\ idx' = [idx EXCEPT ![p] = @ + 1]
    /\ UNCHANGED <<AccessToken, Secret, data, now, crashed, smt, opts, url, reqData, outcome,
                   ret, logs, nposts, posted, overlap, helper>>

\* ------------------------------------------------------------------ send
\* url := r.buildQuery()
BuildQuery(p) ==
    /\ ~crashed
    /\ pc[p] = "send"
    /\ url' = [url EXCEPT ![p] = buildQueryAt(AccessToken, Secret, now)]
    /\ applied' = [applied EXCEPT ![p] = Append(@, [ev |-> "send", n |-> 0])]
    /\ pc' = [pc EXCEPT ![p] = "mergeAt"]
    /\ UNCHANGED <<robot, smt, opts, idx, reqData, outcome, ret, logs, nposts, posted,
                   overlap, helper>>

\* msg[at] = r.at.serialize()
MergeAt(p) ==
    /\ ~crashed
    /\ pc[p] = "mergeAt"
    /\ data' = MapSet(data, atKey, Obj(serialize(at)))
    /\ pc' = [pc EXCEPT ![p] = "marshal"]
    /\ UNCHANGED <<AccessToken, Secret, at, now, crashed, smt, opts, idx, url, reqData,
                   outcome, ret, logs, nposts, posted, applied, overlap, helper>>

\* reqData, err := sonic.Marshal(msg)
SonicMarshal(p) ==
    /\ ~crashed
    /\ pc[p] = "marshal"
    /\ reqData' = [reqData EXCEPT ![p] = Marshal(data)]
    /\ pc' = [pc EXCEPT ![p] = IF Marshal(data).err THEN "marshalErr" ELSE "post"]
    /\ UNCHANGED <<robot, smt, opts, idx, url, outcome, ret, logs, nposts, posted,
                   applied, overlap, helper>>

RetMarshalErrClears(p) ==
    /\ ~crashed
    /\ pc[p] = "marshalErr"
    /\ logs' = [logs EXCEPT ![p] = Append(@, Log("error", <<"sonic serialization failed for data">>))]
    /\ ret' = [ret EXCEPT ![p] = [kind |-> "marshal", msg |-> <<"marshal error">>]]
    /\ pc' = [pc EXCEPT ![p] = "idle"]
    /\ data' = EmptyMap
    /\ at' = NewAtPeople
    /\ UNCHANGED <<AccessToken, Secret, now, crashed, smt, opts, idx, url, reqData, outcome,
                   nposts, posted, applied, overlap, helper>>

\* if err != nil { r.zlog.Error(...); return err }   (after Marshal)
RetMarshalErr(p) ==
    /\ ~crashed
    /\ pc[p] = "marshalErr"
    /\ logs' = [logs EXCEPT ![p] = Append(@, Log("error", <<"sonic serialization failed for data">>))]
    /\ ret' = [ret EXCEPT ![p] = [kind |-> "marshal", msg |-> <<"marshal error">>]]
    /\ pc' = [pc EXCEPT ![p] = "idle"]
    /\ UNCHANGED <<robot, smt, opts, idx, url, reqData, outcome, nposts, posted,
                   applied, overlap, helper>>

\* resp, err := http.Post(url, "application/json", bytes.NewBuffer(reqData)):
\* the transport fails, or a response arrives
HttpPost(p) ==
    /\ ~crashed
    /\ pc[p] = "post"
    /\ nposts' = [nposts EXCEPT ![p] = @ + 1]
    /\ posted' = [posted EXCEPT ![p] = [url |-> url[p], body |-> reqData[p].body]]
    /\ \E st \in {"transport", "response"} :
          outcome' = [outcome EXCEPT ![p] = [status |-> st, body |-> NoBody]]
    /\ pc' = [pc EXCEPT ![p] = "clear"]
    /\ UNCHANGED <<robot, smt, opts, idx, url, reqData, ret, logs, applied, overlap, helper>>

clearNothing(m) == m

\* the builtin clear on a map
clear(m) == EmptyMap

\* clear(r.data)
ClearData(p) ==
    /\ ~crashed
    /\ pc[p] = "clear"
    /\ data' = clear(data)
    /\ pc' = [pc EXCEPT ![p] = "resetAt"]
    /\ UNCHANGED <<AccessToken, Secret, at, now, crashed, smt, opts, idx, url, reqData,
                   outcome, ret, logs, nposts, posted, applied, overlap, helper>>

ResetAtSkipped(p) ==
    /\ ~crashed
    /\ pc[p] = "resetAt"
    /\ pc' = [pc EXCEPT ![p] = "postDone"]
    /\ UNCHANGED <<robot, smt, opts, idx, url, reqData, outcome, ret, logs, nposts,
                   posted, applied, overlap, helper>>

\* r.at = new(AtPeople)
ResetAt(p) ==
    /\ ~crashed
    /\ pc[p] = "resetAt"
    /\ at' = NewAtPeople
    /\ pc' = [pc EXCEPT ![p] = "postDone"]
    /\ UNCHANGED <<AccessToken, Secret, data, now, crashed, smt, opts, idx, url, reqData,
                   outcome, ret, logs, nposts, posted, applied, overlap, helper>>

\* leaving send with value v after giving record l to zlog; oc is what the
\* network gave the call
Return(p, oc, l, v) ==
    /\ outcome' = [outcome EXCEPT ![p] = oc]
    /\ logs' = [logs EXCEPT ![p] = Append(@, l)]
    /\ ret' = [ret EXCEPT ![p] = v]
    /\ pc' = [pc EXCEPT ![p] = "idle"]
    /\ UNCHANGED <<robot, smt, opts, idx, url, reqData, nposts, posted, applied,
                   overlap, helper>>

RetTransportErrRetries(p) ==
    /\ ~crashed
    /\ pc[p] = "postDone"
    /\ outcome[p].status = "transport"
    /\ logs' = [logs EXCEPT ![p] = <<Log("error", <<"dding talk api call failed">>)>>]
    /\ pc' = [pc EXCEPT ![p] = "post"]
    /\ UNCHANGED <<robot, smt, opts, idx, url, reqData, outcome, ret, nposts, posted,
                   applied, overlap, helper>>

\* if err != nil { r.zlog.Error(...); return err }   (after http.Post)
RetTransportErr(p) ==
    /\ ~crashed
    /\ pc[p] = "postDone"
    /\ outcome[p].status = "transport"
    /\ Return(p, outcome[p], Log("error", <<"dding talk api call failed">>),
              [kind |-> "transport", msg |-> <<"transport error">>])

\* respData, err := io.ReadAll(resp.Body); if err != nil { ...; return err }
RetReadErr(p) ==
    /\ ~crashed
    /\ pc[p] = "postDone"
    /\ outcome[p].status = "response"
    /\ Return(p, [status |-> "read", body |-> NoBody],
              Log("error", <<"read dding talk response error">>),
              [kind |-> "read", msg |-> <<"read error">>])

RetRemoteErrSilent(p) ==
    /\ ~crashed
    /\ pc[p] = "postDone"
    /\ outcome[p].status = "response"
    /\ \E body \in Bodies :
          /\ Unmarshal(body).ErrCode # 0
          /\ outcome' = [outcome EXCEPT ![p] = [status |-> "body", body |-> body]]
          /\ ret' = [ret EXCEPT ![p] = [kind |-> "response",
                                        msg |-> ResponseError(Unmarshal(body))]]
    /\ pc' = [pc EXCEPT ![p] = "idle"]
    /\ UNCHANGED <<robot, smt, opts, idx, url, reqData, logs, nposts, posted,
                   applied, overlap, helper>>

\* the body is read; result := new(Response); _ = sonic.Unmarshal(respData, result)
\* if result.ErrCode != 0 { r.zlog.Error(result.Error()); return result }
RetRemoteErr(p) ==
    /\ ~crashed
    /\ pc[p] = "postDone"
    /\ outcome[p].status = "response"
    /\ \E body \in Bodies :
          LET result == Unmarshal(body)
          IN  /\ result.ErrCode # 0
              /\ Return(p, [status |-> "body", body |-> body],
                        Log("error", ResponseError(result)),
                        [kind |-> "response", msg |-> ResponseError(result)])

\* the body is read and result.ErrCode is 0: r.zlog.Info(...); return nil
RetSuccess(p) ==
    /\ ~crashed
    /\ pc[p] = "postDone"
    /\ outcome[p].status = "response"
    /\ \E body \in Bodies :
          /\ Unmarshal(body).ErrCode = 0
          /\ Return(p, [status |-> "body", body |-> body],
                    Log("info", <<"message was successfully send to dding talk">>),
                    [kind |-> "nil", msg |-> <<>>])

\* ------------------------------------------------------- sequential model
\* one goroutine calls BuildMsgAndSend again and again
SeqCall == \E b \in Builders, o \in SeqsUpTo(AtOptions, MaxOpts) : Call(Caller, b, o)

Next ==
    \/ SeqCall
    \/ ApplySmt(Caller)
    \/ ApplyOpt(Caller)
    \/ BuildQuery(Caller)
    \/ MergeAt(Caller)
    \/ SonicMarshal(Caller)
    \/ RetMarshalErr(Caller)
    \/ HttpPost(Caller)
    \/ ClearData(Caller)
    \/ ResetAt(Caller)
    \/ RetTransportErr(Caller)
    \/ RetReadErr(Caller)
    \/ RetRemoteErr(Caller)
    \/ RetSuccess(Caller)

Spec == Init /\ [][Next]_vars

\* ------------------------------------------------------- concurrent model
\* two goroutines each call BuildMsgAndSend once on the same Robot, with the
\* builders of the package
ConcOptions == {WithAtMobiles(<<"111", "222">>), WithAtAll}

ConcCall(p) ==
    /\ ret[p] = NoRet
    /\ \E b \in StdBuilders, o \in SeqsUpTo(ConcOptions, MaxConcOpts) : Call(p, b, o)

\* statements that write the map r.data, and statements that read or write it
MapWritePcs == {"smt", "mergeAt", "clear"}
MapAccessPcs == MapWritePcs \cup {"marshal"}

\* Two goroutines are inside unsynchronised accesses of r.data, one of them a
\* write: the runtime may detect it and end the process
\* ("fatal error: concurrent map writes").
Fatal ==
    /\ ~crashed
    /\ \E p \in Procs, q \in Procs :
          p # q /\ pc[p] \in MapWritePcs /\ pc[q] \in MapAccessPcs
    /\ crashed' = TRUE
    /\ UNCHANGED <<AccessToken, Secret, data, at, now, locals, helper>>

NextConc ==
    \/ \E p \in Procs :
          \/ ConcCall(p)
          \/ ApplySmt(p)
          \/ ApplyOpt(p)
          \/ BuildQuery(p)
          \/ MergeAt(p)
          \/ SonicMarshal(p)
          \/ HttpPost(p)
          \/ ClearData(p)
          \/ ResetAt(p)
          \/ RetTransportErr(p)
          \/ RetReadErr(p)
          \/ RetRemoteErr(p)
          \/ RetSuccess(p)
    \/ Fatal

SpecConc == Init /\ [][NextConc]_vars

\* ------------------------------------------------- the helpers on their own
TokenAtoms == {"tok", "&", "=", "#", "timestamp", "sign"}
Tokens == SeqsUpTo(TokenAtoms, MaxTokenLen)
Secrets == {"SEC", "s&c"}
Peoples == [atMobiles : MobileLists, atUserIds : UserIdLists \cup {<<>>},
            isAtAll : BOOLEAN]

InitFn ==
    /\ \E tok \in Tokens, sec \in Secrets : NewRobot(tok, sec)
    /\ now \in Times
    /\ IdleLocals
    /\ fnIn \in [op : {"none"}, people : Peoples]
    /\ fnOut = NoOut

\* r.buildQuery()
RunBuildQuery ==
    /\ fnIn.op = "none"
    /\ fnIn' = [fnIn EXCEPT !.op = "buildQuery"]
    /\ fnOut' = [NoOut EXCEPT !.url = buildQueryAt(AccessToken, Secret, now)]
    /\ UNCHANGED <<robot, locals>>

\* fnIn.people.serialize()
RunSerialize ==
    /\ fnIn.op = "none"
    /\ fnIn' = [fnIn EXCEPT !.op = "serialize"]
    /\ fnOut' = [NoOut EXCEPT !.mapping = serialize(fnIn.people)]
    /\ UNCHANGED <<robot, locals>>

NextFn == RunBuildQuery \/ RunSerialize

SpecFn == InitFn /\ [][NextFn]_vars

\* =================================================================== claims
Returned(p) == pc[p] = "idle" /\ ret[p] # NoRet

\* the payload a call's own builder and mention options describe: the
\* builder's assignments on an empty message, and under "at" the mention
\* state the options leave when applied in order to a neutral one
RECURSIVE Written(_, _)
Written(m, ws) ==
    IF ws = <<>> THEN m ELSE Written(MapSet(m, Head(ws).k, Head(ws).v), Tail(ws))

RECURSIVE Mentioned(_, _)
Mentioned(people, os) ==
    IF os = <<>> THEN people ELSE Mentioned(ApplyAtOption(Head(os), people), Tail(os))

Describes(b, o) == MapSet(Written(EmptyMap, b), atKey, Obj(serialize(Mentioned(NewAtPeople, o))))

\* C1: in the sequential model, when a call whose send reached the HTTP POST
\* has returned, the pending message is empty and the pending mention state
\* is neutral, whatever the POST, the body read or the remote code gave.
C1_ResetAfterPost ==
    (Returned(Caller) /\ nposts[Caller] > 0) => (data = EmptyMap /\ at = NewAtPeople)

\* a call with a builder and options returned a remote error code
C1_Witness ==
    /\ Returned(Caller) /\ ret[Caller].kind = "response"
    /\ Len(smt[Caller]) > 0 /\ Len(opts[Caller]) > 0
    /\ data = EmptyMap /\ at = NewAtPeople

\* C2: in a call the builder's assignments run first, then the options in the
\* order given, then send; and for the mobiles and the user ids the posted
\* "at" object holds what the last option of that kind in the call set
\* (nothing when it set an empty list), not an accumulation.
ExpectedOrder(b, o) ==
    [i \in 1..Len(b) |-> [ev |-> "smt", n |-> i]]
        \o [i \in 1..Len(o) |-> [ev |-> "opt", n |-> i]]
        \o << [ev |-> "send", n |-> 0] >>

LastWins(p, kind, key) ==
    LET is == {i \in 1..Len(opts[p]) : opts[p][i].opt = kind}
        last == CHOOSE i \in is : \A j \in is : j <= i
        sent == posted[p].body[atKey].fields
    IN  is # {} =>
           IF opts[p][last].args = <<>> THEN key \notin DOMAIN sent
           ELSE key \in DOMAIN sent /\ sent[key] = opts[p][last].args

C2_OrderAndLastWins ==
    /\ applied[Caller] = SubSeq(ExpectedOrder(smt[Caller], opts[Caller]), 1, Len(applied[Caller]))
    /\ nposts[Caller] > 0 =>
          /\ applied[Caller] = ExpectedOrder(smt[Caller], opts[Caller])
          /\ LastWins(Caller, "WithAtMobiles", atMobiles)
          /\ LastWins(Caller, "WithAtUserIds", atUserIds)

\* a call with two different non-empty mobile lists has posted
C2_Witness ==
    /\ nposts[Caller] = 1
    /\ opts[Caller] = <<WithAtMobiles(<<"111", "222">>), WithAtMobiles(<<"333">>)>>
    /\ posted[Caller].body[atKey].fields = (atMobiles :> <<"333">>)

Contains(msg, atom) == \E i \in 1..Len(msg) : msg[i] = atom

C3_WitnessGarbage ==
    /\ Returned(Caller) /\ outcome[Caller].status = "body"
    /\ outcome[Caller].body = GarbageBody /\ ret[Caller].kind = "nil"

\* C4: when serializing the merged message fails, send returns that failure
\* without any HTTP POST, and from the failure to the return the pending
\* message (with the "at" entry just merged in) and the pending mention
\* state stay as they were.
C4_MarshalFailureKeepsState ==
    [][ /\ (pc[Caller] = "marshal" /\ pc'[Caller] = "marshalErr") =>
              (data' = data /\ at' = at /\ nposts'[Caller] = 0)
        /\ pc[Caller] = "marshalErr" =>
              /\ data' = data /\ at' = at /\ nposts'[Caller] = 0
              /\ pc'[Caller] = "idle" /\ ret'[Caller].kind = "marshal"
              /\ atKey \in DOMAIN data' /\ data'[atKey] = Obj(serialize(at'))
              /\ Marshal(data').err
      ]_vars

\* a call with a mention option returned the serialization failure
C4_Witness ==
    /\ Returned(Caller) /\ ret[Caller].kind = "marshal"
    /\ nposts[Caller] = 0 /\ at # NewAtPeople /\ atKey \in DOMAIN data

\* C5: every body a call with a builder of the package posts has "text" only
\* with msgtype "text" and "markdown" only with msgtype "markdown", and holds
\* nothing an earlier call wrote: it is the payload the call's own builder
\* and options describe.
C5_PostedBodyIsOwn ==
    (nposts[Caller] > 0 /\ smt[Caller] \in StdBuilders) =>
        LET body == posted[Caller].body
        IN  /\ textType \in DOMAIN body => body[msgType] = Str(textType)
            /\ markdownType \in DOMAIN body => body[msgType] = Str(markdownType)
            /\ body = Describes(smt[Caller], opts[Caller])

\* C6: a call of the concurrent model posts a payload other than the one its
\* own builder and options describe only when another call was in flight
\* during it; the witness is such a post.
C6_MismatchOnlyByRace ==
    \A p \in Procs :
        (nposts[p] > 0 /\ posted[p].body # Describes(smt[p], opts[p])) => overlap[p]

\* two overlapping calls, no crash, and one posted a payload that is not its own
C6_Witness ==
    /\ ~crashed
    /\ \E p \in Procs :
          /\ nposts[p] = 1 /\ overlap[p]
          /\ posted[p].body # Describes(smt[p], opts[p])

\* the other call's reset emptied the message before this call serialized it
C6_WitnessReset ==
    \E p \in Procs :
        /\ nposts[p] = 1 /\ overlap[p]
        /\ msgType \notin DOMAIN posted[p].body

\* the other call's builder overwrote this call's
C6_WitnessOverwrite ==
    \E p \in Procs :
        /\ nposts[p] = 1 /\ overlap[p]
        /\ smt[p] = TextType("hello")
        /\ msgType \in DOMAIN posted[p].body
        /\ posted[p].body[msgType] = Str(markdownType)

\* C7: a call has given zlog no record while it runs and exactly one when it
\* has returned: info level when it returns nil, error level on the
\* serialization, transport, body-read and nonzero-code paths.
C7_OneLogRecord ==
    /\ pc[Caller] # "idle" => logs[Caller] = <<>>
    /\ Returned(Caller) =>
          /\ Len(logs[Caller]) = 1
          /\ logs[Caller][1].level = IF ret[Caller].kind = "nil" THEN "info" ELSE "error"
          /\ ret[Caller].kind \in {"nil", "marshal", "transport", "read", "response"}

\* a call returned on the nonzero-code path
C7_Witness ==
    /\ Returned(Caller) /\ ret[Caller].kind = "response"
    /\ Len(logs[Caller]) = 1 /\ logs[Caller][1].level = "error"

\* C8: serialize returns a mapping that has atMobiles exactly when the mobile
\* list is non-empty, atUserIds exactly when the user-id list is non-empty
\* and isAtAll exactly when the flag is true, each with the state's value.
C8_SerializeKeys ==
    fnIn.op = "serialize" =>
        LET people == fnIn.people
            m == fnOut.mapping
        IN  /\ DOMAIN m \subseteq {atMobiles, atUserIds, atAll}
            /\ atMobiles \in DOMAIN m <=> people.atMobiles # <<>>
            /\ atUserIds \in DOMAIN m <=> people.atUserIds # <<>>
            /\ atAll \in DOMAIN m <=> people.isAtAll
            /\ atMobiles \in DOMAIN m => m[atMobiles] = people.atMobiles
            /\ atUserIds \in DOMAIN m => m[atUserIds] = people.atUserIds
            /\ atAll \in DOMAIN m => m[atAll] = <<"true">>

\* serialize ran on a state with all three set
C8_Witness ==
    /\ fnIn.op = "serialize"
    /\ fnIn.people = [atMobiles |-> <<"111", "222">>, atUserIds |-> <<"u1">>, isAtAll |-> TRUE]
    /\ DOMAIN fnOut.mapping = {atMobiles, atUserIds, atAll}

\* serialize ran on the neutral state
C8_WitnessEmpty ==
    fnIn.op = "serialize" /\ fnIn.people = NewAtPeople /\ fnOut.mapping = EmptyMap

\* C9: a call runs http.Post at most once: once when serialization succeeded
\* and never when it failed, whatever failed afterwards.
C9_AtMostOnePost ==
    /\ nposts[Caller] <= 1
    /\ Returned(Caller) => nposts[Caller] = (IF ret[Caller].kind = "marshal" THEN 0 ELSE 1)

\* a call returned a transport error after its one POST
C9_Witness ==
    Returned(Caller) /\ ret[Caller].kind = "transport" /\ nposts[Caller] = 1

\* ---- reading a URL's query, as net/url does
IndexOf(s, a) ==
    IF \E i \in 1..Len(s) : s[i] = a
    THEN CHOOSE i \in 1..Len(s) : s[i] = a /\ \A j \in 1..(i - 1) : s[j] # a
    ELSE 0
Before(s, a) == IF IndexOf(s, a) = 0 THEN s ELSE SubSeq(s, 1, IndexOf(s, a) - 1)
After(s, a) == IF IndexOf(s, a) = 0 THEN <<>> ELSE SubSeq(s, IndexOf(s, a) + 1, Len(s))

RECURSIVE SplitOn(_, _)
SplitOn(s, a) ==
    IF IndexOf(s, a) = 0 THEN <<s>> ELSE <<Before(s, a)>> \o SplitOn(After(s, a), a)

\* the query of a URL: what follows the first "?", up to the fragment
RawQuery(u) == After(Before(u, "#"), "?")

\* how many values the query has under the key `name`
QueryCount(u, name) ==
    LET parts == SplitOn(RawQuery(u), "&")
    IN  Cardinality({i \in 1..Len(parts) : Before(parts[i], "=") = <<name>>})

SignedUrl(token, secret, ts) ==
    apiUrl \o token \o <<"&", "timestamp", "=", ts>> \o <<"&", "sign", "=">>
        \o Base64(Hmac(secret, ts \o "\n" \o secret))

UrlShape(u) == \E t \in Times : u = SignedUrl(AccessToken, Secret, ToString(t))

\* C10 as stated: for every token and secret the URL is the base URL, the
\* token, &timestamp=<ms>, &sign=<signature>, with the timestamp the one
\* signed, and it has exactly one timestamp and exactly one sign query value.
C10_Original ==
    fnIn.op = "buildQuery" =>
        /\ UrlShape(fnOut.url)
        /\ QueryCount(fnOut.url, "timestamp") = 1
        /\ QueryCount(fnOut.url, "sign") = 1

\* C10 amended: the shape holds for every token and secret; the URL has
\* exactly one timestamp and one sign query value when the token holds no
\* "&" and no "#".
PlainToken(token) == \A i \in 1..Len(token) : token[i] \notin {"&", "#"}

C10_SignedUrl ==
    fnIn.op = "buildQuery" =>
        /\ UrlShape(fnOut.url)
        /\ PlainToken(AccessToken) =>
              /\ QueryCount(fnOut.url, "timestamp") = 1
              /\ QueryCount(fnOut.url, "sign") = 1

\* buildQuery ran with a token that spells a parameter name but has no "&"
C10_Witness ==
    /\ fnIn.op = "buildQuery"
    /\ AccessToken = <<"tok", "timestamp">>
    /\ QueryCount(fnOut.url, "timestamp") = 1

====
